---- MODULE Spec2Model ----
(***************************************************************************)
(* Verification model of netplan-types' lenient YAML boolean decoding      *)
(* (src/src/bool.rs) and of the derived struct decoding of the schema      *)
(* fields that use it (src/src/netplan/...).                               *)
(*                                                                         *)
(* Strings are sequences of one-character strings, so that to_lowercase    *)
(* is computed character by character.  A token is a value of the serde    *)
(* data model as a Deserializer presents it to a Visitor.  A deserializer  *)
(* is either the YAML deserializer reading the document itself ("yaml")    *)
(* or serde's buffered Content deserializer ("content"), which the derive  *)
(* uses for every key that is routed into a #[serde(flatten)] field.       *)
(***************************************************************************)
EXTENDS Integers, Sequences, FiniteSets, TLC

VARIABLES op, input, result, calls

vars == <<op, input, result, calls>>

----------------------------------------------------------------------------
(* Bounds *)

\* longest arbitrary string over Alphabet offered as a string token
MaxStrLen == 2

\* largest number of entries of a decoded document (mapping)
MaxDocLen == 2

\* the most fields of one struct value that are Some
MaxSome == 2

\* largest number of entries of a decoded list of addresses
MaxListLen == 2

\* number of threads that decode at the same time
NumWorkers == 2

----------------------------------------------------------------------------
(* Characters and strings *)

UpperChars == <<"T", "R", "U", "E", "Y", "S", "O", "N", "F", "A", "L", "M">>

LowerChars == <<"t", "r", "u", "e", "y", "s", "o", "n", "f", "a", "l", "m">>

OtherChars == {"1", "0", " "}

Alphabet ==
    {UpperChars[i] : i \in DOMAIN UpperChars} \cup
    {LowerChars[i] : i \in DOMAIN LowerChars} \cup OtherChars

\* char::to_lowercase on the modelled characters: an upper-case letter maps
\* to its lower-case letter, every other character to itself
char_to_lowercase(c) ==
    IF \E i \in DOMAIN UpperChars : UpperChars[i] = c
    THEN LowerChars[CHOOSE i \in DOMAIN UpperChars : UpperChars[i] = c]
    ELSE c

\* lower-casing of the first character only
to_lowercase_first(v) ==
    [i \in DOMAIN v |-> IF i = 1 THEN char_to_lowercase(v[i]) ELSE v[i]]

\* str::to_lowercase
to_lowercase(v) == [i \in DOMAIN v |-> char_to_lowercase(v[i])]

char_to_uppercase(c) ==
    IF \E i \in DOMAIN LowerChars : LowerChars[i] = c
    THEN UpperChars[CHOOSE i \in DOMAIN LowerChars : LowerChars[i] = c]
    ELSE c

\* the literals of the match arms of StringOrBool::visit_str
TruthyLiterals ==
    { <<"t", "r", "u", "e">>, <<"y", "e", "s">>, <<"o", "n">>, <<"y">> }

\* the falsy literals with `fals` in place of `false`
FalsyLiterals_fals ==
    { <<"f", "a", "l", "s">>, <<"n", "o">>, <<"o", "f", "f">>, <<"n">> }

FalsyLiterals ==
    { <<"f", "a", "l", "s", "e">>, <<"n", "o">>, <<"o", "f", "f">>, <<"n">> }

\* the `expected` slice handed to Error::unknown_variant
ExpectedVariants ==
    << <<"t", "r", "u", "e">>, <<"f", "a", "l", "s", "e">>, <<"y", "e", "s">>,
       <<"n", "o">>, <<"o", "n">>, <<"o", "f", "f">>, <<"y">>, <<"n">> >>

----------------------------------------------------------------------------
(* Tokens, deserializers, results *)

Tok(kind, b, s, n) == [kind |-> kind, b |-> b, s |-> s, n |-> n]

BoolTok(b) == Tok("bool", b, <<>>, 0)

StrTok(s) == Tok("str", FALSE, s, 0)

U64Tok(n) == Tok("u64", FALSE, <<>>, n)

I64Tok(n) == Tok("i64", FALSE, <<>>, n)

F64Tok == Tok("f64", FALSE, <<>>, 0)

UnitTok == Tok("unit", FALSE, <<>>, 0)

SeqTok == Tok("seq", FALSE, <<>>, 0)

MapTok == Tok("map", FALSE, <<>>, 0)

\* a sequence whose items (tokens) are known
SeqTokOf(items) ==
    [kind |-> "seq", b |-> FALSE, s |-> <<>>, n |-> 0, items |-> items]

\* a mapping whose entries (key and token) are known
MapTokOf(entries) ==
    [kind |-> "map", b |-> FALSE, s |-> <<>>, n |-> 0, m |-> entries]

\* the externally tagged form of an enum value: the variant name and the
\* token of its content
VariantTokOf(variant, tok) ==
    [kind |-> "variant", b |-> FALSE, s |-> <<>>, n |-> 0,
     variant |-> variant, inner |-> tok]

De(fmt, tok) == [fmt |-> fmt, tok |-> tok]

Formats == {"yaml", "content"}

Ok(v) == [tag |-> "Ok", val |-> v]

Err(e) == [tag |-> "Err", err |-> e]

None == <<>>

Some(v) == <<v>>

\* serde::de::Error::unknown_variant(variant, expected)
unknown_variant(variant, expected) ==
    [kind |-> "unknown_variant", variant |-> variant, expected |-> expected]

\* serde::de::Error::invalid_type(unexp, &visitor): `expecting` is the text
\* the visitor's expecting() writes
invalid_type(unexp, expecting) ==
    [kind |-> "invalid_type", unexpected |-> unexp, expecting |-> expecting]

\* serde::de::Error::invalid_value(unexp, &expecting)
invalid_value(unexp, expecting) ==
    [kind |-> "invalid_value", unexpected |-> unexp, expecting |-> expecting]

\* serde::de::Error::missing_field(name)
missing_field(name) == [kind |-> "missing_field", field |-> name]

----------------------------------------------------------------------------
(* src/src/bool.rs *)

\* StringOrBool::expecting
StringOrBool_expecting == "YAML boolean"

\* StringOrBoolOption::expecting
StringOrBoolOption_expecting == "YAML boolean or null"

\* the Visitor method Deserializer::deserialize_any drives for a token
deserialize_any(de) ==
    CASE de.tok.kind = "bool" -> "visit_bool"
      [] de.tok.kind = "str"  -> "visit_str"
      [] de.tok.kind = "u64"  -> "visit_u64"
      [] de.tok.kind = "i64"  -> "visit_i64"
      [] de.tok.kind = "f64"  -> "visit_f64"
      [] de.tok.kind = "unit" -> "visit_unit"
      [] de.tok.kind = "seq"  -> "visit_seq"
      [] de.tok.kind = "map"  -> "visit_map"
      [] de.tok.kind = "variant" -> "visit_enum"

\* the Visitor method Deserializer::deserialize_option drives for a token.
\* The YAML deserializer reports a null scalar as visit_none; the buffered
\* Content deserializer holds a null as Content::Unit and reports visit_unit.
deserialize_option(de) ==
    IF de.tok.kind = "unit"
    THEN (IF de.fmt = "yaml" THEN "visit_none" ELSE "visit_unit")
    ELSE "visit_some"

\* the serde::de::Unexpected a provided (not overridden) Visitor method
\* reports
Unexpected(method) ==
    CASE method = "visit_bool" -> "Bool"
      [] method = "visit_str"  -> "Str"
      [] method = "visit_u64"  -> "Unsigned"
      [] method = "visit_i64"  -> "Signed"
      [] method = "visit_f64"  -> "Float"
      [] method = "visit_unit" -> "Unit"
      [] method = "visit_seq"  -> "Seq"
      [] method = "visit_map"  -> "Map"
      [] method = "visit_enum" -> "Enum"
      [] method = "visit_none" -> "Option"
      [] method = "visit_some" -> "Option"

\* visit_bool returning the opposite value
visit_bool_negated(v) == Ok(~v)

\* visit_bool returning true for either value
visit_bool_always_true(v) == Ok(TRUE)

\* StringOrBool::visit_bool
visit_bool(v) == Ok(v)

\* visit_str matching v itself, without to_lowercase
visit_str_case_sensitive(v) ==
    IF v \in TruthyLiterals THEN Ok(TRUE)
    ELSE IF v \in FalsyLiterals THEN Ok(FALSE)
    ELSE Err(unknown_variant(v, ExpectedVariants))

\* visit_str coercing an unknown literal to false
visit_str_default_false(v) ==
    LET lower == to_lowercase(v) IN
    IF lower \in TruthyLiterals THEN Ok(TRUE) ELSE Ok(FALSE)

\* StringOrBool::visit_str
visit_str(v) ==
    LET lower == to_lowercase(v) IN
    IF lower \in TruthyLiterals THEN Ok(TRUE)
    ELSE IF lower \in FalsyLiterals THEN Ok(FALSE)
    ELSE Err(unknown_variant(v, ExpectedVariants))

\* a visitor that also overrides visit_u64 and accepts numbers
StringOrBool_visit_default_numeric(method) ==
    IF method = "visit_u64" THEN Ok(TRUE)
    ELSE Err(invalid_type(Unexpected(method), StringOrBool_expecting))

\* the Visitor methods StringOrBool does not override
StringOrBool_visit_default(method) ==
    Err(invalid_type(Unexpected(method), StringOrBool_expecting))

\* string_or_bool: deserializer.deserialize_any(StringOrBool)
string_or_bool(de) ==
    LET method == deserialize_any(de) IN
    CASE method = "visit_bool" -> visit_bool(de.tok.b)
      [] method = "visit_str"  -> visit_str(de.tok.s)
      [] OTHER                 -> StringOrBool_visit_default(method)

\* Result::map(Some)
map_Some(r) == IF r.tag = "Ok" THEN Ok(Some(r.val)) ELSE r

\* StringOrBoolOption::visit_none
visit_none == Ok(None)

\* visit_some turning a failure of string_or_bool into None
visit_some_lossy(de) ==
    IF string_or_bool(de).tag = "Ok" THEN map_Some(string_or_bool(de))
    ELSE Ok(None)

\* StringOrBoolOption::visit_some
visit_some(de) == map_Some(string_or_bool(de))

\* the Visitor methods StringOrBoolOption does not override
StringOrBoolOption_visit_default(method) ==
    Err(invalid_type(Unexpected(method), StringOrBoolOption_expecting))

\* string_or_bool_option: deserializer.deserialize_option(StringOrBoolOption)
string_or_bool_option(de) ==
    LET method == deserialize_option(de) IN
    CASE method = "visit_none" -> visit_none
      [] method = "visit_some" -> visit_some(de)
      [] OTHER                 -> StringOrBoolOption_visit_default(method)

\* the Visitor methods one call of string_or_bool reaches, in order
string_or_bool_calls(de) == <<deserialize_any(de)>>

\* the Visitor methods one call of string_or_bool_option reaches, in order
string_or_bool_option_calls(de) ==
    IF deserialize_option(de) = "visit_some"
    THEN <<"visit_some">> \o string_or_bool_calls(de)
    ELSE <<deserialize_option(de)>>

----------------------------------------------------------------------------
(* The schema: src/src/netplan/...                                         *)
(* A field is named by the words of its Rust identifier (use_dns is        *)
(* <<"use", "dns">>).  The tables list, in declaration order, the boolean  *)
(* fields of each struct, the fields that flatten a common block into a    *)
(* device definition, and the string, number, enum, struct and list fields *)
(* the properties below are about.                                         *)

\* #[serde(default)] #[serde(deserialize_with = "crate::bool::string_or_bool_option")]
\* pub f: Option<bool>
Lenient(words) ==
    [name |-> words, kind |-> "lenient", default |-> TRUE, ty |-> "bool"]

\* the same field without #[serde(default)]
LenientNoDefault(words) ==
    [name |-> words, kind |-> "lenient", default |-> FALSE, ty |-> "bool"]

\* pub f: Option<bool>
OptBool(words) ==
    [name |-> words, kind |-> "opt_bool", default |-> FALSE, ty |-> "bool"]

\* pub f: Option<String>
OptString(words) ==
    [name |-> words, kind |-> "opt_string", default |-> FALSE, ty |-> "String"]

\* f: Option<String> without a serde attribute
PlainOptString(words) ==
    [name |-> words, kind |-> "plain_opt_string", default |-> FALSE, ty |-> "String"]

\* #[serde(skip_serializing_if = "Option::is_none")] pub key: Option<TunnelKey>
OptTunnelKey(words) ==
    [name |-> words, kind |-> "opt_tunnel_key", default |-> FALSE, ty |-> "TunnelKey"]

\* pub f: Option<u16>
OptU16(words) ==
    [name |-> words, kind |-> "opt_u16", default |-> FALSE, ty |-> "u16"]

\* pub f: Option<T> for a struct T
OptStruct(words, T) ==
    [name |-> words, kind |-> "opt_struct", default |-> FALSE, ty |-> T]

\* pub f: Option<E> for an enum E of unit variants
OptEnum(words, E) ==
    [name |-> words, kind |-> "opt_enum", default |-> FALSE, ty |-> E]

\* #[serde(skip_serializing_if = "Vec::is_empty")] pub f: Vec<T> for a
\* struct T, without #[serde(default)]
VecOf(words, T) ==
    [name |-> words, kind |-> "vec", default |-> FALSE, ty |-> T]

\* #[serde(flatten)] pub f: Option<T>
Flatten(words, T) ==
    [name |-> words, kind |-> "flatten", default |-> FALSE, ty |-> T]

DhcpOverrides_fields_no_default ==
    << Lenient(<<"use", "dns">>), LenientNoDefault(<<"use", "ntp">>),
       Lenient(<<"send", "hostname">>), Lenient(<<"use", "hostname">>),
       Lenient(<<"use", "mtu">>), OptString(<<"hostname">>),
       Lenient(<<"use", "routes">>), OptU16(<<"route", "metric">>),
       OptString(<<"use", "domains">>) >>

DhcpOverrides_fields ==
    << Lenient(<<"use", "dns">>), Lenient(<<"use", "ntp">>),
       Lenient(<<"send", "hostname">>), Lenient(<<"use", "hostname">>),
       Lenient(<<"use", "mtu">>), OptString(<<"hostname">>),
       Lenient(<<"use", "routes">>), OptU16(<<"route", "metric">>),
       OptString(<<"use", "domains">>) >>

CommonPropertiesAllDevices_fields ==
    << Lenient(<<"dhcp4">>), Lenient(<<"dhcp6">>),
       Lenient(<<"ipv6", "privacy">>), Lenient(<<"ignore", "carrier">>),
       OptBool(<<"critical">>),
       OptStruct(<<"dhcp4", "overrides">>, "DhcpOverrides"),
       OptStruct(<<"dhcp6", "overrides">>, "DhcpOverrides"),
       OptBool(<<"accept", "ra">>), OptBool(<<"optional">>),
       OptEnum(<<"activation", "mode">>, "ActivationMode") >>

CommonPropertiesPhysicalDeviceType_fields ==
    << Lenient(<<"wakeonlan">>), Lenient(<<"emit", "lldp">>),
       Lenient(<<"receive", "checksum", "offload">>),
       Lenient(<<"transmit", "checksum", "offload">>),
       Lenient(<<"tcp", "segmentation", "offload">>),
       Lenient(<<"tcp6", "segmentation", "offload">>),
       Lenient(<<"generic", "segmentation", "offload">>),
       Lenient(<<"generic", "receive", "offload">>),
       Lenient(<<"large", "receive", "offload">>) >>

OpenVSwitchConfig_fields ==
    << Lenient(<<"mcast", "snooping">>), Lenient(<<"rtsp">>) >>

BondParameters_fields ==
    << OptEnum(<<"transmit", "hash", "policy">>, "TransmitHashPolicy"),
       Lenient(<<"all", "slaves", "active">>),
       OptEnum(<<"fail", "over", "mac", "policy">>, "FailOverMacPolicy") >>

BridgeParameters_fields == << Lenient(<<"stp">>) >>

AccessPointConfig_fields == << Lenient(<<"hidden">>) >>

RoutingConfig_fields == << Lenient(<<"on", "link">>) >>

EthernetConfig_fields ==
    << OptBool(<<"delay", "virtual", "functions", "rebind">>),
       Flatten(<<"common", "physical">>, "CommonPropertiesPhysicalDeviceType"),
       Flatten(<<"common", "all">>, "CommonPropertiesAllDevices") >>

ModemConfig_fields ==
    << Lenient(<<"auto", "config">>),
       Flatten(<<"common", "physical">>, "CommonPropertiesPhysicalDeviceType"),
       Flatten(<<"common", "all">>, "CommonPropertiesAllDevices") >>

WifiConfig_fields ==
    << Flatten(<<"common", "physical">>, "CommonPropertiesPhysicalDeviceType"),
       Flatten(<<"common", "all">>, "CommonPropertiesAllDevices") >>

AddressProperties_fields ==
    << OptString(<<"label">>), OptEnum(<<"lifetime">>, "PreferredLifetime") >>

WireGuardPeer_fields ==
    << OptString(<<"endpoint">>) >>

\* the fields of the struct variant TunnelKey::Complex
TunnelKeyComplex_fields ==
    << PlainOptString(<<"input">>), PlainOptString(<<"output">>),
       PlainOptString(<<"private">>) >>

TunnelConfig_fields ==
    << OptString(<<"local">>), OptString(<<"remote">>),
       OptTunnelKey(<<"key">>),
       OptString(<<"mark">>), OptString(<<"port">>),
       VecOf(<<"peers">>, "WireGuardPeer"),
       Flatten(<<"common", "all">>, "CommonPropertiesAllDevices") >>

Structs ==
    {"DhcpOverrides", "CommonPropertiesAllDevices",
     "CommonPropertiesPhysicalDeviceType", "OpenVSwitchConfig",
     "BondParameters", "BridgeParameters", "AccessPointConfig",
     "RoutingConfig", "EthernetConfig", "ModemConfig", "WifiConfig"}

Fields(S) ==
    CASE S = "DhcpOverrides" -> DhcpOverrides_fields
      [] S = "CommonPropertiesAllDevices" -> CommonPropertiesAllDevices_fields
      [] S = "CommonPropertiesPhysicalDeviceType" ->
            CommonPropertiesPhysicalDeviceType_fields
      [] S = "OpenVSwitchConfig" -> OpenVSwitchConfig_fields
      [] S = "BondParameters" -> BondParameters_fields
      [] S = "BridgeParameters" -> BridgeParameters_fields
      [] S = "AccessPointConfig" -> AccessPointConfig_fields
      [] S = "RoutingConfig" -> RoutingConfig_fields
      [] S = "EthernetConfig" -> EthernetConfig_fields
      [] S = "ModemConfig" -> ModemConfig_fields
      [] S = "WifiConfig" -> WifiConfig_fields
      [] S = "AddressProperties" -> AddressProperties_fields
      [] S = "WireGuardPeer" -> WireGuardPeer_fields
      [] S = "TunnelConfig" -> TunnelConfig_fields
      [] S = "TunnelKey::Complex" -> TunnelKeyComplex_fields

\* the unit variants of each enum, in declaration order, each with the name
\* serde writes and reads: the name given by #[serde(rename = "...")] on the
\* variant, otherwise the Rust identifier

PreferredLifetime_variants ==
    << [variant |-> "Forever", name |-> <<"f", "o", "r", "e", "v", "e", "r">>],
       [variant |-> "Zero", name |-> <<"0">>] >>

\* #[serde(rename = "lowercase")] on the enum renames the enum, not its
\* variants
ActivationMode_variants ==
    << [variant |-> "Manual", name |-> <<"M", "a", "n", "u", "a", "l">>],
       [variant |-> "Off", name |-> <<"O", "f", "f">>] >>

TransmitHashPolicy_variants ==
    << [variant |-> "Layer2", name |-> <<"l", "a", "y", "e", "r", "2">>],
       [variant |-> "Layer3Plus4",
        name |-> <<"l", "a", "y", "e", "r", "3", "+", "4">>],
       [variant |-> "Encap2Plus3",
        name |-> <<"e", "n", "c", "a", "p", "2", "+", "3">>],
       [variant |-> "Encap3Plus4",
        name |-> <<"e", "n", "c", "a", "p", "3", "+", "4">>] >>

FailOverMacPolicy_variants ==
    << [variant |-> "None", name |-> <<"n", "o", "n", "e">>],
       [variant |-> "Active", name |-> <<"a", "c", "t", "i", "v", "v">>],
       [variant |-> "Follow", name |-> <<"f", "o", "l", "l", "o", "w">>] >>

Variants(E) ==
    CASE E = "PreferredLifetime" -> PreferredLifetime_variants
      [] E = "ActivationMode" -> ActivationMode_variants
      [] E = "TransmitHashPolicy" -> TransmitHashPolicy_variants
      [] E = "FailOverMacPolicy" -> FailOverMacPolicy_variants

\* the names of the variants of E, in declaration order
VariantNames(E) == [i \in DOMAIN Variants(E) |-> Variants(E)[i].name]

\* rename_all = "snake_case"
rename_all_snake(S) == "_"

\* #[serde(rename_all = "kebab-case")] on every struct of the tables: the
\* key of a field is its words joined by "-"
rename_all(S) == "-"

\* a mapping key: words joined by a separator
Key(words, sep) == [words |-> words, sep |-> IF Len(words) > 1 THEN sep ELSE ""]

FieldKey(S, f) == Key(f.name, rename_all(S))

OwnFields(S) == {Fields(S)[i] : i \in {j \in DOMAIN Fields(S) : Fields(S)[j].kind # "flatten"}}

FlattenFields(S) == SelectSeq(Fields(S), LAMBDA f : f.kind = "flatten")

OwnKeys(S) == {FieldKey(S, f) : f \in OwnFields(S)}

\* the own field of S a key names
FieldOfKey(S, k) == CHOOSE f \in OwnFields(S) : FieldKey(S, f) = k

----------------------------------------------------------------------------
(* YAML scalars *)

(* A scalar of a YAML document is its text and its style.  The serializer  *)
(* writes scalars, the deserializer resolves a plain scalar to a null, a   *)
(* boolean, an integer or a string by its text, and reads a quoted scalar  *)
(* as a string.  A resolved token keeps the text in its field s.           *)

Scalar(text, style) == [text |-> text, style |-> style]

Plain(text) == Scalar(text, "plain")

\* a block sequence: its items, each a node
Sequence(items) == [text |-> <<>>, style |-> "seq", items |-> items]

\* a block mapping: its entries, each a key and a node
Mapping(entries) == [text |-> <<>>, style |-> "map", entries |-> entries]

SingleQuoted(text) == Scalar(text, "single")

\* a node written in the externally tagged form of an enum: the variant
\* name and the node of its content
Tagged(variant, node) ==
    [text |-> <<>>, style |-> "tagged", variant |-> variant, node |-> node]

Digits == <<"0", "1", "2", "3", "4", "5", "6", "7", "8", "9">>

\* the value of a decimal digit
DigitValue(c) == (CHOOSE i \in DOMAIN Digits : Digits[i] = c) - 1

IsDigit(c) == \E i \in DOMAIN Digits : Digits[i] = c

\* a decimal number without sign: digits only, no leading zero
IsDecimal(text) ==
    /\ Len(text) > 0
    /\ \A i \in DOMAIN text : IsDigit(text[i])
    /\ Len(text) > 1 => text[1] # "0"

\* a decimal fraction: digits, a point, digits
IsFloat(text) ==
    \E i \in DOMAIN text :
        /\ text[i] = "."
        /\ i > 1 /\ i < Len(text)
        /\ \A j \in DOMAIN text : j # i => IsDigit(text[j])

RECURSIVE itoa(_)
\* the decimal text of a natural number (integer Display)
itoa(n) ==
    IF n < 10 THEN <<Digits[n + 1]>>
    ELSE Append(itoa(n \div 10), Digits[(n % 10) + 1])

RECURSIVE atoi(_)
\* the natural number of a decimal text (str::parse)
atoi(text) ==
    IF Len(text) = 0 THEN 0
    ELSE 10 * atoi(SubSeq(text, 1, Len(text) - 1)) + DigitValue(text[Len(text)])

\* the plain texts read as null
NullTexts == { <<>>, <<"n", "u", "l", "l">>, <<"N", "u", "l", "l">>,
               <<"N", "U", "L", "L">> }

\* the plain texts read as true and as false
TrueTexts == { <<"t", "r", "u", "e">>, <<"T", "r", "u", "e">>,
               <<"T", "R", "U", "E">> }

FalseTexts == { <<"f", "a", "l", "s", "e">>, <<"F", "a", "l", "s", "e">>,
                <<"F", "A", "L", "S", "E">> }

\* the token the YAML deserializer resolves a scalar to
resolve(sc) ==
    IF sc.style # "plain" THEN StrTok(sc.text)
    ELSE IF sc.text \in NullTexts THEN Tok("unit", FALSE, sc.text, 0)
    ELSE IF sc.text \in TrueTexts THEN Tok("bool", TRUE, sc.text, 0)
    ELSE IF sc.text \in FalseTexts THEN Tok("bool", FALSE, sc.text, 0)
    ELSE IF IsDecimal(sc.text) THEN Tok("u64", FALSE, sc.text, atoi(sc.text))
    ELSE IF Len(sc.text) > 1 /\ sc.text[1] = "-" /\ IsDecimal(Tail(sc.text))
         THEN Tok("i64", FALSE, sc.text, 0 - atoi(Tail(sc.text)))
    ELSE IF IsFloat(sc.text) THEN Tok("f64", FALSE, sc.text, 0)
    ELSE StrTok(sc.text)

RECURSIVE parse(_)
\* the token the YAML deserializer reads from a node
parse(node) ==
    IF node.style = "map"
    THEN MapTokOf([i \in DOMAIN node.entries |->
                      [key |-> node.entries[i].key,
                       tok |-> parse(node.entries[i].node)]])
    ELSE IF node.style = "seq"
    THEN SeqTokOf([i \in DOMAIN node.items |-> parse(node.items[i])])
    ELSE IF node.style = "tagged"
    THEN VariantTokOf(node.variant, parse(node.node))
    ELSE resolve(node)

\* Serializer::serialize_bool
serialize_bool(b) ==
    Plain(IF b THEN <<"t", "r", "u", "e">> ELSE <<"f", "a", "l", "s", "e">>)

\* Serializer::serialize_u16
serialize_u16(n) == Plain(itoa(n))

\* serialize_str writing every string plain
serialize_str_plain(v) == Plain(v)

\* Serializer::serialize_str: a string whose plain text would be read as
\* something other than a string, or that starts or ends with a space, is
\* quoted
serialize_str(v) ==
    IF \/ resolve(Plain(v)).kind # "str"
       \/ (Len(v) > 0 /\ (v[1] = " " \/ v[Len(v)] = " "))
    THEN SingleQuoted(v)
    ELSE Plain(v)

----------------------------------------------------------------------------
(* derive(Deserialize) *)

\* bool::deserialize: deserialize_bool with a visitor that accepts visit_bool
\* only and expects "a boolean"
bool_deserialize(de) ==
    IF de.tok.kind = "bool" THEN Ok(de.tok.b)
    ELSE Err(invalid_type(Unexpected(deserialize_any(de)), "a boolean"))

\* Option<bool>::deserialize: deserialize_option with serde's OptionVisitor,
\* whose visit_none and visit_unit both give None
option_bool_deserialize(de) ==
    IF deserialize_option(de) \in {"visit_none", "visit_unit"}
    THEN Ok(None)
    ELSE map_Some(bool_deserialize(de))

\* the kinds of token a YAML scalar resolves to
ScalarKinds == {"bool", "str", "u64", "i64", "f64", "unit"}

\* String::deserialize: deserialize_string with a visitor that accepts
\* visit_str only.  The YAML deserializer hands it the text of any scalar;
\* the buffered Content deserializer hands it a Content::String only.
string_deserialize(de) ==
    IF \/ de.tok.kind = "str"
       \/ (de.fmt = "yaml" /\ de.tok.kind \in ScalarKinds)
    THEN Ok(de.tok.s)
    ELSE Err(invalid_type(Unexpected(deserialize_any(de)), "a string"))

\* Option<String>::deserialize
option_string_deserialize(de) ==
    IF deserialize_option(de) \in {"visit_none", "visit_unit"}
    THEN Ok(None)
    ELSE map_Some(string_deserialize(de))

\* u16::MAX
U16_MAX == 65535

\* u16::deserialize: an unsigned or signed integer inside the range of u16
u16_deserialize(de) ==
    IF de.tok.kind = "u64"
    THEN (IF de.tok.n <= U16_MAX THEN Ok(de.tok.n)
          ELSE Err(invalid_value("Unsigned", "u16")))
    ELSE IF de.tok.kind = "i64"
    THEN (IF de.tok.n >= 0 /\ de.tok.n <= U16_MAX THEN Ok(de.tok.n)
          ELSE Err(invalid_value("Signed", "u16")))
    ELSE Err(invalid_type(Unexpected(deserialize_any(de)), "u16"))

\* Option<u16>::deserialize
option_u16_deserialize(de) ==
    IF deserialize_option(de) \in {"visit_none", "visit_unit"}
    THEN Ok(None)
    ELSE map_Some(u16_deserialize(de))

RECURSIVE deserialize_struct(_, _, _)
RECURSIVE flatten_values(_, _, _)

\* T::deserialize for a struct T: the derived visitor accepts a mapping
struct_deserialize(T, de) ==
    IF de.tok.kind = "map"
    THEN deserialize_struct(T, de.tok.m, de.fmt)
    ELSE Err(invalid_type(Unexpected(deserialize_any(de)), "struct"))

\* Option<T>::deserialize for a struct T
option_struct_deserialize(T, de) ==
    IF deserialize_option(de) \in {"visit_none", "visit_unit"}
    THEN Ok(None)
    ELSE map_Some(struct_deserialize(T, de))

\* E::deserialize for an enum E of unit variants.  The YAML deserializer
\* takes the text of a scalar as the variant name; the buffered Content
\* deserializer takes a Content::String (or a mapping, which no unit
\* variant accepts) and rejects every other content.
enum_deserialize(E, de) ==
    IF \/ de.tok.kind = "str"
       \/ (de.fmt = "yaml" /\ de.tok.kind \in ScalarKinds)
    THEN (IF \E i \in DOMAIN Variants(E) : Variants(E)[i].name = de.tok.s
          THEN Ok((CHOOSE v \in {Variants(E)[i] : i \in DOMAIN Variants(E)} :
                      v.name = de.tok.s).variant)
          ELSE Err(unknown_variant(de.tok.s, VariantNames(E))))
    ELSE IF de.tok.kind = "map"
    THEN Err(invalid_type("Map", "unit variant"))
    ELSE Err(invalid_type(Unexpected(deserialize_any(de)), "string or map"))

\* Option<E>::deserialize for an enum E
option_enum_deserialize(E, de) ==
    IF deserialize_option(de) \in {"visit_none", "visit_unit"}
    THEN Ok(None)
    ELSE map_Some(enum_deserialize(E, de))

\* the items of a sequence visited in order: the first item that fails is
\* the error
visit_seq_items(rs) ==
    LET bad == {i \in DOMAIN rs : rs[i].tag = "Err"}
    IN  IF bad # {} THEN rs[CHOOSE i \in bad : \A j \in bad : i <= j]
        ELSE Ok([i \in DOMAIN rs |-> rs[i].val])

\* Vec<T>::deserialize for a struct T: a sequence whose items are read in
\* order; the first item that fails is the error
vec_deserialize(T, de) ==
    IF de.tok.kind = "seq"
    THEN visit_seq_items([i \in DOMAIN de.tok.items |->
             struct_deserialize(T, De(de.fmt, de.tok.items[i]))])
    ELSE Err(invalid_type(Unexpected(deserialize_any(de)), "a sequence"))

\* a value of TunnelKey: the variant and what it holds
TunnelKeyOf(variant, x) == [variant |-> variant, with |-> x]

\* the value of a variant whose content decoded to r
variant_value(variant, r) ==
    IF r.tag = "Ok" THEN Ok(TunnelKeyOf(variant, r.val)) ELSE r

\* the variant names of TunnelKey, in declaration order
TunnelKey_variants == << <<"S", "i", "m", "p", "l", "e">>,
                         <<"C", "o", "m", "p", "l", "e", "x">> >>

\* TunnelKey::deserialize, an externally tagged enum (no #[serde(untagged)]):
\* deserialize_enum reads the variant name and then the content of the
\* variant.  The externally tagged form gives both; a scalar gives its text
\* as the name of a unit variant, which neither the newtype variant Simple
\* nor the struct variant Complex accepts; a mapping of the fields of
\* Complex carries no variant name
TunnelKey_deserialize(de) ==
    IF de.tok.kind = "variant"
    THEN (IF de.tok.variant = "Simple"
          THEN variant_value("Simple", string_deserialize(De(de.fmt, de.tok.inner)))
          ELSE variant_value("Complex",
                   struct_deserialize("TunnelKey::Complex", De(de.fmt, de.tok.inner))))
    ELSE IF \/ de.tok.kind = "str"
            \/ (de.fmt = "yaml" /\ de.tok.kind \in ScalarKinds)
    THEN (IF de.tok.s = TunnelKey_variants[1]
          THEN Err(invalid_type("UnitVariant", "newtype variant"))
          ELSE IF de.tok.s = TunnelKey_variants[2]
          THEN Err(invalid_type("UnitVariant", "struct variant"))
          ELSE Err(unknown_variant(de.tok.s, TunnelKey_variants)))
    ELSE Err(invalid_type(Unexpected(deserialize_any(de)), "enum TunnelKey"))

\* Option<TunnelKey>::deserialize
option_TunnelKey_deserialize(de) ==
    IF deserialize_option(de) \in {"visit_none", "visit_unit"}
    THEN Ok(None)
    ELSE map_Some(TunnelKey_deserialize(de))

\* the value of one own field whose key is present
deserialize_field(f, de) ==
    CASE f.kind = "lenient"    -> string_or_bool_option(de)
      [] f.kind = "opt_bool"   -> option_bool_deserialize(de)
      [] f.kind = "opt_string" -> option_string_deserialize(de)
      [] f.kind = "opt_u16"    -> option_u16_deserialize(de)
      [] f.kind = "opt_struct" -> option_struct_deserialize(f.ty, de)
      [] f.kind = "vec"        -> vec_deserialize(f.ty, de)
      [] f.kind = "opt_enum"   -> option_enum_deserialize(f.ty, de)
      [] f.kind = "plain_opt_string" -> option_string_deserialize(de)
      [] f.kind = "opt_tunnel_key" -> option_TunnelKey_deserialize(de)

\* the value of one own field whose key is absent: Default::default() under
\* #[serde(default)], None for a plain Option, missing_field for a Vec or
\* a deserialize_with field without a default
missing_field_value(f) ==
    IF f.kind \in {"lenient", "vec"} /\ ~f.default THEN Err(missing_field(f.name))
    ELSE Ok(None)

\* the entries of a mapping a struct's own fields consume
OwnIdx(S, entries) == {i \in DOMAIN entries : entries[i].key \in OwnKeys(S)}

\* the entries left for the flattened fields (all other keys are buffered
\* as Content when S has a flattened field, and ignored otherwise)
Rest(S, entries) == SelectSeq(entries, LAMBDA e : e.key \notin OwnKeys(S))

\* the flattened fields of S from position i on, as a function from field
\* name to value: Option<T> is deserialized from the buffered entries by
\* FlatMapDeserializer::deserialize_option, which gives Some(v) when T
\* deserializes and None when T fails
flatten_values(S, i, entries) ==
    LET flat == FlattenFields(S) IN
    IF i > Len(flat) THEN <<>>
    ELSE LET f == flat[i]
             r == deserialize_struct(f.ty, entries, "content")
             v == IF r.tag = "Ok" THEN Some(r.val) ELSE None
         IN  <<[name |-> f.name, val |-> v]>> \o
             flatten_values(S, i + 1, Rest(f.ty, entries))

\* the visit_map the derive generates for struct S, reading `entries` in
\* document order from a deserializer of format fmt
deserialize_struct(S, entries, fmt) ==
    LET own == OwnIdx(S, entries)
        res(i) == deserialize_field(FieldOfKey(S, entries[i].key),
                                    De(fmt, entries[i].tok))
        bad == {i \in own : res(i).tag = "Err"}
        present == {entries[i].key : i \in own}
        absent == {f \in OwnFields(S) : FieldKey(S, f) \notin present}
        badAbsent == {f \in absent : missing_field_value(f).tag = "Err"}
        flat == flatten_values(S, 1, Rest(S, entries))
        ownVal(f) ==
            IF f \in absent THEN missing_field_value(f).val
            ELSE res(CHOOSE i \in own : entries[i].key = FieldKey(S, f)).val
    IN  IF bad # {}
        THEN res(CHOOSE i \in bad : \A j \in bad : i <= j)
        ELSE IF badAbsent # {}
        THEN missing_field_value(
                 CHOOSE f \in badAbsent :
                     \A j \in DOMAIN Fields(S) :
                         Fields(S)[j] \in badAbsent =>
                             \E k \in 1..j : Fields(S)[k] = f)
        ELSE Ok([n \in {f.name : f \in OwnFields(S)} \cup
                       {flat[i].name : i \in DOMAIN flat} |->
                   IF \E f \in OwnFields(S) : f.name = n
                   THEN ownVal(CHOOSE f \in OwnFields(S) : f.name = n)
                   ELSE flat[CHOOSE i \in DOMAIN flat : flat[i].name = n].val])

\* the entries of a map visited in order: the first key or value that fails
\* is the error, otherwise each key maps to the value of the last entry
\* that carries it
visit_map_entries(ks, vs) ==
    LET bad == {i \in DOMAIN ks : ks[i].tag = "Err" \/ vs[i].tag = "Err"}
        first == CHOOSE i \in bad : \A j \in bad : i <= j
        last(key) == CHOOSE i \in DOMAIN ks :
                        /\ ks[i].val = key
                        /\ \A j \in DOMAIN ks : ks[j].val = key => j <= i
    IN  IF bad # {}
        THEN (IF ks[first].tag = "Err" THEN ks[first] ELSE vs[first])
        ELSE Ok([key \in {ks[i].val : i \in DOMAIN ks} |-> vs[last(key)].val])

\* HashMap<String, AddressProperties>::deserialize from buffered Content:
\* a mapping whose keys are Content::String and whose values are
\* AddressProperties
hashmap_deserialize(de) ==
    IF de.tok.kind # "map"
    THEN Err(invalid_type(Unexpected(deserialize_any(de)), "a map"))
    ELSE visit_map_entries(
             [i \in DOMAIN de.tok.m |->
                 string_deserialize(De("content", resolve(de.tok.m[i].key)))],
             [i \in DOMAIN de.tok.m |->
                 struct_deserialize("AddressProperties",
                                    De("content", de.tok.m[i].tok))])

\* the error of an untagged enum none of whose variants accepts the content
no_variant_matched(E) == [kind |-> "custom", enum |-> E]

\* the variants of AddressMapping tried in declaration order on the
\* buffered content: the first that deserializes is the value
first_variant(simple, complex) ==
    IF simple.tag = "Ok"
    THEN Ok([variant |-> "Simple", val |-> simple.val])
    ELSE IF complex.tag = "Ok"
    THEN Ok([variant |-> "Complex", val |-> complex.val])
    ELSE Err(no_variant_matched("AddressMapping"))

\* AddressMapping::deserialize, #[serde(untagged)]: the input is buffered as
\* Content, then Simple(String) is tried on it, then Complex(HashMap)
AddressMapping_deserialize(de) ==
    first_variant(string_deserialize(De("content", de.tok)),
                  hashmap_deserialize(De("content", de.tok)))

\* Vec<AddressMapping>::deserialize
addresses_deserialize(de) ==
    IF de.tok.kind = "seq"
    THEN visit_seq_items([i \in DOMAIN de.tok.items |->
             AddressMapping_deserialize(De(de.fmt, de.tok.items[i]))])
    ELSE Err(invalid_type(Unexpected(deserialize_any(de)), "a sequence"))

----------------------------------------------------------------------------
(* derive(Serialize) *)

\* skip_serializing_if that skips nothing
skip_serializing_if_never(f, v) == FALSE

\* #[serde(skip_serializing_if = "Option::is_none")] on an Option,
\* #[serde(skip_serializing_if = "Vec::is_empty")] on a Vec
skip_serializing_if(f, v) ==
    IF f.kind = "vec" THEN Len(v) = 0
    ELSE IF f.kind = "plain_opt_string" THEN FALSE
    ELSE v = None

RECURSIVE serialize_struct(_, _, _)

\* the node written for the value of one own field: a Vec writes a
\* sequence of its items, Option<T> writes null for None and the inner
\* value for Some
serialize_field(f, v) ==
    IF f.kind = "vec"
    THEN Sequence([i \in DOMAIN v |-> Mapping(serialize_struct(f.ty, v[i], 1))])
    ELSE IF v = None THEN Plain(<<"n", "u", "l", "l">>)
    ELSE CASE f.kind \in {"lenient", "opt_bool"} -> serialize_bool(v[1])
           [] f.kind \in {"opt_string", "plain_opt_string"} -> serialize_str(v[1])
           [] f.kind = "opt_tunnel_key" ->
               Tagged(v[1].variant,
                      IF v[1].variant = "Simple" THEN serialize_str(v[1].with)
                      ELSE Mapping(serialize_struct("TunnelKey::Complex", v[1].with, 1)))
           [] f.kind = "opt_u16" -> serialize_u16(v[1])
           [] f.kind = "opt_struct" -> Mapping(serialize_struct(f.ty, v[1], 1))
           [] f.kind = "opt_enum" ->
               serialize_str((CHOOSE x \in {Variants(f.ty)[i] : i \in DOMAIN Variants(f.ty)} :
                                 x.variant = v[1]).name)

\* the entries the derived Serialize of S writes for value v from field i
\* on, in declaration order; a flattened Some(block) writes the block's
\* entries in place, a flattened None writes nothing
serialize_struct(S, v, i) ==
    IF i > Len(Fields(S)) THEN <<>>
    ELSE LET f == Fields(S)[i]
             x == v[f.name]
             here == IF f.kind = "flatten"
                     THEN (IF x = None THEN <<>>
                           ELSE serialize_struct(f.ty, x[1], 1))
                     ELSE IF skip_serializing_if(f, x) THEN <<>>
                     ELSE <<[key |-> FieldKey(S, f),
                             node |-> serialize_field(f, x)]>>
         IN  here \o serialize_struct(S, v, i + 1)

\* serde_yaml::to_string(&v) for a value v of struct S
to_string(S, v) == serialize_struct(S, v, 1)

\* serde_yaml::from_str::<S>(yaml): every node is read as a token
from_str(S, yaml) ==
    deserialize_struct(S,
        [i \in DOMAIN yaml |-> [key |-> yaml[i].key, tok |-> parse(yaml[i].node)]],
        "yaml")

----------------------------------------------------------------------------
(* Inputs *)

RECURSIVE StringsOfLen(_)
StringsOfLen(n) ==
    IF n = 0 THEN {<<>>}
    ELSE {Append(s, c) : s \in StringsOfLen(n - 1), c \in Alphabet}

ShortStrings == UNION {StringsOfLen(n) : n \in 0..MaxStrLen}

\* every upper/lower-case spelling of a literal
CaseVariants(lit) ==
    {[i \in DOMAIN lit |-> IF up[i] THEN char_to_uppercase(lit[i]) ELSE lit[i]] :
        up \in [DOMAIN lit -> BOOLEAN]}

\* the words the YAML boolean grammar reads as true
TruthyWords ==
    { <<"t", "r", "u", "e">>, <<"y", "e", "s">>, <<"o", "n">>, <<"y">> }

\* the words the YAML boolean grammar reads as false
FalsyWords ==
    { <<"f", "a", "l", "s", "e">>, <<"n", "o">>, <<"o", "f", "f">>, <<"n">> }

\* the spellings of a set of words in every mix of upper and lower case
Spellings(L) == UNION {CaseVariants(lit) : lit \in L}

AcceptedSpellings == Spellings(TruthyWords \cup FalsyWords)

\* longer strings that are not accepted
RejectedStrings ==
    { <<"m", "a", "y", "b", "e">>, <<"f", "a", "l", "s">>,
      <<"t", "r", "u", "e", "e">>, <<"T", "r", "u">>, <<" ", "o", "n">>,
      <<"y", "e", "s", " ">>, <<"n", "o", "n", "e">>, <<"n", "u", "l", "l">> }

StringTokens ==
    {StrTok(s) : s \in ShortStrings \cup AcceptedSpellings \cup RejectedStrings}

NonStringTokens ==
    {BoolTok(TRUE), BoolTok(FALSE), U64Tok(0), U64Tok(1), U64Tok(2),
     I64Tok(-1), F64Tok, UnitTok, SeqTok, MapTok}

Tokens == StringTokens \cup NonStringTokens

Deserializers == {De(fmt, tok) : fmt \in Formats, tok \in Tokens}

----------------------------------------------------------------------------
(* State machine *)

\* the scalars offered as values of document entries
DocScalars ==
    {Plain(<<"t", "r", "u", "e">>), Plain(<<"o", "n">>),
     Plain(<<"m", "a", "y", "b", "e">>), Plain(<<>>)}

DocTokens == {resolve(sc) : sc \in DocScalars}

\* the scalars offered in a DhcpOverrides mapping besides DocScalars
DhcpScalars == {Plain(<<"r", "o", "u", "t", "e">>)}

\* the tokens offered as values of the entries of a mapping decoded as S
DocTokensOf(S) ==
    IF S = "DhcpOverrides"
    THEN DocTokens \cup {resolve(sc) : sc \in DhcpScalars}
    ELSE DocTokens

\* the structs decoded from a mapping whose one entry is a nested mapping
NestingStructs == {"EthernetConfig"}

\* the keys of the fields of struct S that hold a nested struct T, own or
\* flattened
NestedKeys(S, T) ==
    UNION {{FieldKey(B, f) :
               f \in {g \in OwnFields(B) : g.kind = "opt_struct" /\ g.ty = T}} :
           B \in {S} \cup {FlattenFields(S)[i].ty : i \in DOMAIN FlattenFields(S)}}

RECURSIVE KeysFrom(_, _)
\* the keys a mapping decoded as S can use, in schema order, from field i on
KeysFrom(S, i) ==
    IF i > Len(Fields(S)) THEN <<>>
    ELSE LET f == Fields(S)[i] IN
         (IF f.kind = "flatten" THEN KeysFrom(f.ty, 1) ELSE <<FieldKey(S, f)>>)
         \o KeysFrom(S, i + 1)

\* a key no struct declares
UnknownKey == Key(<<"unknown", "key">>, "-")

DocKeys(S) == Append(KeysFrom(S, 1), UnknownKey)

\* the mapping of n entries whose i-th entry has key K[idx[i]] and value
\* toks[i]
Doc(K, n, idx, toks) == [i \in 1..n |-> [key |-> K[idx[i]], tok |-> toks[i]]]

\* the choices of n keys of K, keys in schema order
KeyChoices(K, n) ==
    {idx \in [1..n -> DOMAIN K] : \A i \in 1..n : \A j \in 1..n : i < j => idx[i] < idx[j]}

\* the strings offered as values of string fields
SampleStrings ==
    { <<"r", "o", "u", "t", "e">>, <<"t", "r", "u", "e">>, <<"1", "0">>,
      <<"n", "u", "l", "l">>, <<>>, <<" ", "o", "n">> }

\* the numbers offered as values of u16 fields
SampleU16 == {0, 100, U16_MAX}

RECURSIVE ValuesFrom(_, _, _)

\* the values a field of an Option type can hold besides None, with at most
\* k fields set inside a nested struct
SomeValues(f, k) ==
    CASE f.kind \in {"lenient", "opt_bool"} -> BOOLEAN
      [] f.kind \in {"opt_string", "plain_opt_string"} -> SampleStrings
      [] f.kind = "opt_tunnel_key" ->
            {TunnelKeyOf("Simple", x) : x \in SampleStrings} \cup
            {TunnelKeyOf("Complex", x) :
                x \in ValuesFrom("TunnelKey::Complex", 1, k)}
      [] f.kind = "opt_u16" -> SampleU16
      [] f.kind = "opt_struct" -> ValuesFrom(f.ty, 1, k)
      [] f.kind = "opt_enum" -> {Variants(f.ty)[i].variant : i \in DOMAIN Variants(f.ty)}
      [] f.kind = "flatten" -> ValuesFrom(f.ty, 1, k)

\* the settings of the fields of struct S from field i on with at most k
\* fields that are not empty, each nested struct, flattened block and list
\* item with at most k - 1 fields set; a Vec holds no item or one
ValuesFrom(S, i, k) ==
    IF i > Len(Fields(S)) THEN {<<>>}
    ELSE LET f == Fields(S)[i] IN
         {(f.name :> None) @@ r : r \in ValuesFrom(S, i + 1, k)} \cup
         (IF k = 0 THEN {}
          ELSE IF f.kind = "vec"
          THEN {(f.name :> <<p>>) @@ r :
                   p \in ValuesFrom(f.ty, 1, k - 1), r \in ValuesFrom(S, i + 1, k - 1)}
          ELSE {(f.name :> Some(x)) @@ r :
                   x \in SomeValues(f, k - 1), r \in ValuesFrom(S, i + 1, k - 1)})

\* the values of struct S offered for serialization
Values(S) == ValuesFrom(S, 1, MaxSome)

\* the structs whose values are serialized and read back
RoundTripStructs ==
    {"DhcpOverrides", "EthernetConfig", "TunnelConfig", "BondParameters"}

\* the address texts offered in lists of addresses
Addr1 == <<"1", "0", ".", "0", ".", "0", ".", "1", "/", "8">>

Addr2 == <<":", ":", "1", "/", "6", "4">>

\* the scalar entries offered in a list of addresses: two addresses, a
\* quoted number and a plain number
AddressScalars ==
    {Plain(Addr1), Plain(Addr2), SingleQuoted(<<"1", "0">>), Plain(<<"1", "0">>)}

\* the label entries and the lifetime entries offered in the properties of
\* an address, the empty sequence standing for an absent key
LabelEntries ==
    {<<>>, <<[key |-> Key(<<"label">>, "-"), node |-> Plain(<<"l", "a", "n">>)]>>}

LifetimeEntries ==
    {<<>>} \cup
    {<<[key |-> Key(<<"lifetime">>, "-"), node |-> sc]>> :
        sc \in {Plain(<<"f", "o", "r", "e", "v", "e", "r">>),
                SingleQuoted(<<"0">>), Plain(<<"0">>)}}

\* the single-key mapping entries offered in a list of addresses
AddressMappings ==
    {Mapping(<<[key |-> Plain(Addr1), node |-> Mapping(l \o t)]>>) :
        l \in LabelEntries, t \in LifetimeEntries}

AddressItems == AddressScalars \cup AddressMappings

\* the integers offered as values of route-metric, around both ends of
\* the range of u16
MetricSamples == {0, 1, 100, 65534, 65535, 65536, 65537, 65636, 131071}

NegativeMetricSamples == {1, 65535, 65536}

\* the plain scalars that spell the offered integers
MetricScalars ==
    {Plain(itoa(n)) : n \in MetricSamples} \cup
    {Plain(<<"-">> \o itoa(n)) : n \in NegativeMetricSamples}

\* a mapping of one entry
OneEntry(k, tok) == <<[key |-> k, tok |-> tok]>>

\* the documents that set one field of a DhcpOverrides mapping to a scalar:
\* the mapping decoded on its own, and the mapping under the
\* dhcp4-overrides or dhcp6-overrides key of a device definition
DhcpFieldDocs(words, scalars) ==
    {[struct |-> "DhcpOverrides",
      doc |-> OneEntry(Key(words, "-"), resolve(sc))] : sc \in scalars} \cup
    UNION {{[struct |-> S,
             doc |-> OneEntry(k, MapTokOf(OneEntry(Key(words, "-"), resolve(sc))))] :
               k \in NestedKeys(S, "DhcpOverrides"), sc \in scalars} :
           S \in NestingStructs}

\* the documents that set one field of struct T to a scalar: the mapping
\* decoded as T, and the mapping decoded as a device definition that
\* flattens T
OwnFieldDocs(T, words, scalars) ==
    {[struct |-> S, doc |-> OneEntry(Key(words, "-"), resolve(sc))] :
        S \in {T} \cup
              {N \in NestingStructs :
                  \E i \in DOMAIN FlattenFields(N) : FlattenFields(N)[i].ty = T},
        sc \in scalars}

\* the scalars offered as values of activation-mode
ActivationModeScalars ==
    {Plain(<<"m", "a", "n", "u", "a", "l">>), Plain(<<"o", "f", "f">>),
     Plain(<<"M", "a", "n", "u", "a", "l">>), Plain(<<"O", "f", "f">>),
     Plain(<<"o", "n">>)}

\* the scalars offered as values of fail-over-mac-policy
FailOverMacPolicyScalars ==
    {Plain(<<"n", "o", "n", "e">>), Plain(<<"a", "c", "t", "i", "v", "e">>),
     Plain(<<"f", "o", "l", "l", "o", "w">>),
     Plain(<<"a", "c", "t", "i", "v", "v">>), Plain(<<"N", "o", "n", "e">>)}

\* the scalars offered as values of transmit-hash-policy
TransmitHashPolicyScalars ==
    {Plain(<<"l", "a", "y", "e", "r", "2">>),
     Plain(<<"l", "a", "y", "e", "r", "3", "+", "4">>),
     Plain(<<"l", "a", "y", "e", "r", "2", "+", "3">>),
     Plain(<<"e", "n", "c", "a", "p", "2", "+", "3">>),
     Plain(<<"e", "n", "c", "a", "p", "3", "+", "4">>),
     Plain(<<"l", "a", "y", "e", "r", "3">>)}

\* the key texts offered as a scalar tunnel key
KeyTexts == { <<"1", "0">>, <<"1", ".", "2", ".", "3", ".", "4">>,
              <<"a", "b", "c">>, <<"S", "i", "m", "p", "l", "e">> }

\* the mappings offered as a tunnel key: each subset of the keys input,
\* output and private, every value the same quoted text
KeyMappings ==
    {MapTokOf(SelectSeq(
         [i \in 1..3 |-> [key |-> Key(TunnelKeyComplex_fields[i].name, "-"),
                          tok |-> resolve(SingleQuoted(<<"a", "b", "c">>))]],
         LAMBDA e : e.key.words[1] \in ks)) :
        ks \in SUBSET {"input", "output", "private"}}

\* the tokens offered as value of the key of a tunnel
KeyTokens ==
    {resolve(Plain(t)) : t \in KeyTexts} \cup
    {resolve(SingleQuoted(t)) : t \in KeyTexts} \cup KeyMappings

\* the tunnel definitions that set key, without peers and with an empty
\* list of peers
TunnelKeyDocs ==
    {[struct |-> "TunnelConfig",
      doc |-> OneEntry(Key(<<"key">>, "-"), tok) \o p] :
        tok \in KeyTokens,
        p \in {<<>>, OneEntry(Key(<<"peers">>, "-"), SeqTokOf(<<>>))}}

\* the documents that set route-metric to an integer
RouteMetricDocs == DhcpFieldDocs(<<"route", "metric">>, MetricScalars)

\* the documents that set one field to one scalar
FieldDocs ==
    RouteMetricDocs \cup
    OwnFieldDocs("CommonPropertiesAllDevices", <<"activation", "mode">>,
                 ActivationModeScalars) \cup
    OwnFieldDocs("BondParameters", <<"fail", "over", "mac", "policy">>,
                 FailOverMacPolicyScalars) \cup
    OwnFieldDocs("BondParameters", <<"transmit", "hash", "policy">>,
                 TransmitHashPolicyScalars)

Pending == [tag |-> "Pending"]

\* the calls a run can be asked to make, each with its input
ScalarRuns ==
    {"string_or_bool", "string_or_bool_option"} \X Deserializers

Init ==
    /\ \/ \E run \in ScalarRuns :
            /\ op = run[1]
            /\ input = run[2]
       \/ \E S \in Structs : \E n \in 0..MaxDocLen :
            \E idx \in KeyChoices(DocKeys(S), n) : \E toks \in [1..n -> DocTokensOf(S)] :
                /\ op = "from_str"
                /\ input = [struct |-> S, doc |-> Doc(DocKeys(S), n, idx, toks)]
       \/ \E S \in NestingStructs : \E k \in NestedKeys(S, "DhcpOverrides") :
            \E n \in 0..MaxDocLen : \E idx \in KeyChoices(DocKeys("DhcpOverrides"), n) :
                \E toks \in [1..n -> DocTokensOf("DhcpOverrides")] :
                    /\ op = "from_str"
                    /\ input = [struct |-> S,
                                doc |-> << [key |-> k,
                                            tok |-> MapTokOf(Doc(DocKeys("DhcpOverrides"),
                                                                 n, idx, toks))] >>]
       \/ \E d \in FieldDocs \cup TunnelKeyDocs :
            /\ op = "from_str"
            /\ input = d
       \/ \E S \in RoundTripStructs : \E v \in Values(S) :
            /\ op = "to_string"
            /\ input = [struct |-> S, value |-> v]
       \/ \E fmt \in Formats : \E n \in 0..MaxListLen :
            \E items \in [1..n -> AddressItems] :
                /\ op = "from_str_addresses"
                /\ input = [fmt |-> fmt, items |-> items]
    /\ result = Pending
    /\ calls = <<>>

\* one call of bool::string_or_bool
CallStringOrBool ==
    /\ op = "string_or_bool"
    /\ result = Pending
    /\ result' = string_or_bool(input)
    /\ calls' = string_or_bool_calls(input)
    /\ UNCHANGED <<op, input>>

\* one call of bool::string_or_bool_option
CallStringOrBoolOption ==
    /\ op = "string_or_bool_option"
    /\ result = Pending
    /\ result' = string_or_bool_option(input)
    /\ calls' = string_or_bool_option_calls(input)
    /\ UNCHANGED <<op, input>>

\* serde_yaml::from_str::<S>(doc) for a struct S of the schema
FromStr ==
    /\ op = "from_str"
    /\ result = Pending
    /\ result' = deserialize_struct(input.struct, input.doc, "yaml")
    /\ UNCHANGED <<op, input, calls>>

\* a second call of bool::string_or_bool, on the native boolean a first
\* call returned; the first call's token and result are kept in the input
Redecode ==
    /\ op = "string_or_bool"
    /\ result # Pending
    /\ result.tag = "Ok"
    /\ \E fmt \in Formats :
         LET de == De(fmt, BoolTok(result.val)) IN
         /\ input' = [fmt |-> fmt, tok |-> de.tok, from |-> input.tok,
                      first |-> result]
         /\ result' = string_or_bool(de)
         /\ calls' = calls \o string_or_bool_calls(de)
    /\ op' = "redecode"

\* serde_yaml::to_string(&value)
CallToString ==
    /\ op = "to_string"
    /\ result = Pending
    /\ result' = Ok(to_string(input.struct, input.value))
    /\ UNCHANGED <<op, input, calls>>

\* serde_yaml::from_str on the text to_string returned
ReadBack ==
    /\ op = "to_string"
    /\ result # Pending
    /\ op' = "round_trip"
    /\ input' = [struct |-> input.struct, value |-> input.value,
                 yaml |-> result.val]
    /\ result' = from_str(input.struct, result.val)
    /\ UNCHANGED calls

\* Vec<AddressMapping>::deserialize on a list of addresses, read from the
\* document or from the buffered entries of a flattened block
FromStrAddresses ==
    /\ op = "from_str_addresses"
    /\ result = Pending
    /\ result' = addresses_deserialize(De(input.fmt, parse(Sequence(input.items))))
    /\ UNCHANGED <<op, input, calls>>

Next ==
    \/ CallStringOrBool
    \/ CallStringOrBoolOption
    \/ FromStr
    \/ Redecode
    \/ CallToString
    \/ ReadBack
    \/ FromStrAddresses

Spec == Init /\ [][Next]_vars

----------------------------------------------------------------------------
(* Decode calls on several threads *)

(* Each thread makes one decode call on its own token.  A call is a chain  *)
(* of Visitor methods on a unit struct followed by its return; bool.rs     *)
(* holds no static, no global and no field, so a step of a thread reads    *)
(* its own deserializer only.  The variables hold one component per        *)
(* thread.                                                                 *)

Workers == 1..NumWorkers

\* the tokens the threads decode
WorkerTokens ==
    {BoolTok(TRUE), StrTok(<<"O", "f", "f">>), StrTok(<<"m", "a", "y", "b", "e">>),
     U64Tok(1), UnitTok}

WorkerRuns ==
    {"string_or_bool", "string_or_bool_option"} \X
    {De(fmt, tok) : fmt \in Formats, tok \in WorkerTokens}

\* the call o on deserializer de, made alone
Alone(o, de) ==
    IF o = "string_or_bool" THEN string_or_bool(de) ELSE string_or_bool_option(de)

\* the Visitor methods the call o on deserializer de reaches, in order
AloneCalls(o, de) ==
    IF o = "string_or_bool" THEN string_or_bool_calls(de)
    ELSE string_or_bool_option_calls(de)

\* a decode that reads the token of the first thread
Decode_shared(w, ops, inputs) == Alone(ops[w], inputs[1])

\* what the call of thread w returns: string_or_bool and
\* string_or_bool_option read their own deserializer argument only
Decode(w, ops, inputs) == Alone(ops[w], inputs[w])

InitConc ==
    /\ \E runs \in [Workers -> WorkerRuns] :
          /\ op = [w \in Workers |-> runs[w][1]]
          /\ input = [w \in Workers |-> runs[w][2]]
    /\ result = [w \in Workers |-> Pending]
    /\ calls = [w \in Workers |-> <<>>]

\* thread w enters the next Visitor method of its call
Visit(w) ==
    /\ result[w] = Pending
    /\ Len(calls[w]) < Len(AloneCalls(op[w], input[w]))
    /\ calls' = [calls EXCEPT ![w] =
                    Append(@, AloneCalls(op[w], input[w])[Len(@) + 1])]
    /\ UNCHANGED <<op, input, result>>

\* the call of thread w returns
Return(w) ==
    /\ result[w] = Pending
    /\ calls[w] = AloneCalls(op[w], input[w])
    /\ result' = [result EXCEPT ![w] = Decode(w, op, input)]
    /\ UNCHANGED <<op, input, calls>>

NextConc ==
    \/ \E w \in Workers : Visit(w)
    \/ \E w \in Workers : Return(w)

SpecConc == InitConc /\ [][NextConc]_vars

----------------------------------------------------------------------------
(* Properties *)

\* the operation o has returned
Done(o) == op = o /\ result # Pending

\* the keys of the lenient fields a mapping decoded as S can hold, its own
\* and those of the blocks flattened into it
LenientKeys(S) ==
    {FieldKey(S, f) : f \in {g \in OwnFields(S) : g.kind = "lenient"}} \cup
    UNION {{FieldKey(FlattenFields(S)[i].ty, f) :
               f \in {g \in OwnFields(FlattenFields(S)[i].ty) : g.kind = "lenient"}} :
           i \in DOMAIN FlattenFields(S)}

\* a value no lenient boolean field accepts, whatever deserializer holds it
Rejected(tok) == string_or_bool_option(De("yaml", tok)).tag = "Err"

\* the mapping without its i-th entry
WithoutEntry(doc, i) ==
    [j \in 1..(Len(doc) - 1) |-> IF j < i THEN doc[j] ELSE doc[j + 1]]

\* C1: string_or_bool returns true for every string token that spells
\* true, yes, on or y in any mix of upper and lower case.
C1_TruthyStringsDecodeTrue ==
    (Done("string_or_bool") /\ input.tok.kind = "str"
        /\ input.tok.s \in Spellings(TruthyWords))
    => result = Ok(TRUE)

C1_Witness ==
    /\ Done("string_or_bool")
    /\ input.tok = StrTok(<<"Y", "E", "S">>)
    /\ result = Ok(TRUE)

\* C2: string_or_bool returns false for every string token that spells
\* false, no, off or n in any mix of upper and lower case.
C2_FalsyStringsDecodeFalse ==
    (Done("string_or_bool") /\ input.tok.kind = "str"
        /\ input.tok.s \in Spellings(FalsyWords))
    => result = Ok(FALSE)

C2_Witness ==
    /\ Done("string_or_bool")
    /\ input.tok = StrTok(<<"F", "A", "L", "S", "E">>)
    /\ result = Ok(FALSE)

C4_NativeBoolPassesThrough ==
    (Done("string_or_bool") /\ input.tok.kind = "bool")
    => /\ result = Ok(input.tok.b)
       /\ \A i \in DOMAIN calls : calls[i] # "visit_str"

C4_Witness ==
    /\ Done("string_or_bool")
    /\ input.tok = BoolTok(FALSE)
    /\ result = Ok(FALSE)
    /\ calls = <<"visit_bool">>

\* C5: for a token that is neither a boolean nor a string (a number, a
\* null, a sequence, a mapping), string_or_bool fails with an invalid-type
\* error that expects a YAML boolean.
C5_OtherTokensAreTypeMismatch ==
    (Done("string_or_bool") /\ input.tok.kind \notin {"bool", "str"})
    => /\ result.tag = "Err"
       /\ result.err.kind = "invalid_type"
       /\ result.err.expecting = "YAML boolean"

C5_Witness ==
    /\ Done("string_or_bool")
    /\ input.tok = U64Tok(1)
    /\ result = Err(invalid_type("Unsigned", "YAML boolean"))

\* C6: string_or_bool_option gives None, not an error, for a field that is
\* present with an explicit null, and a lenient field that is absent from
\* the document is None.
C6_NullOrAbsentIsNone ==
    /\ (Done("string_or_bool_option") /\ input.tok.kind = "unit")
       => result = Ok(None)
    /\ (Done("from_str") /\ input.doc = <<>>)
       => /\ result.tag = "Ok"
          /\ \A f \in OwnFields(input.struct) :
                f.kind = "lenient" => result.val[f.name] = None

\* C7: for a field present with a concrete (non-null) value,
\* string_or_bool_option gives Some of what string_or_bool gives, and the
\* same error when string_or_bool fails.
C7_SomeDelegatesToRequired ==
    (Done("string_or_bool_option") /\ input.tok.kind # "unit")
    => LET r == string_or_bool(input) IN
       IF r.tag = "Ok"
       THEN result.tag = "Ok" /\ result.val = <<r.val>>
       ELSE result.tag = "Err" /\ result.err = r.err

C7_Witness ==
    /\ Done("string_or_bool_option")
    /\ input.tok = StrTok(<<"f", "a", "l", "s", "e">>)
    /\ result = Ok(Some(FALSE))
    /\ calls = <<"visit_some", "visit_str">>

\* C8: a value that a lenient boolean field rejects makes the decode of the
\* whole document fail, also when the field belongs to a block flattened
\* into the decoded struct.
C8_FieldErrorFailsDocument ==
    Done("from_str")
    => \A i \in DOMAIN input.doc :
          (input.doc[i].key \in LenientKeys(input.struct)
              /\ Rejected(input.doc[i].tok))
          => result.tag = "Err"

\* C9: for every lenient field, own or in a flattened block, a document
\* that sets the field to null decodes to the same result as the document
\* that omits it.
C9_NullDecodesAsOmitted ==
    Done("from_str")
    => \A i \in DOMAIN input.doc :
          (input.doc[i].key \in LenientKeys(input.struct)
              /\ input.doc[i].tok = UnitTok)
          => result = deserialize_struct(input.struct,
                                         WithoutEntry(input.doc, i), "yaml")

\* C10: every lenient field carries the default attribute, so a document
\* that omits the field never fails with a missing-field error and, when
\* it decodes, holds None in that field; the empty mapping decodes.
C10_OmittedLenientFieldIsNone ==
    /\ \A S \in Structs : \A i \in DOMAIN Fields(S) :
          Fields(S)[i].kind = "lenient" => Fields(S)[i].default
    /\ Done("from_str")
       => /\ input.doc = <<>> => result.tag = "Ok"
          /\ \A f \in OwnFields(input.struct) :
                (f.kind = "lenient"
                    /\ \A i \in DOMAIN input.doc :
                          input.doc[i].key # FieldKey(input.struct, f))
                => /\ result.tag = "Err" => result.err.kind # "missing_field"
                   /\ result.tag = "Ok" => result.val[f.name] = None

C10_Witness ==
    /\ Done("from_str")
    /\ input.struct = "DhcpOverrides"
    /\ input.doc = <<>>
    /\ result.tag = "Ok"
    /\ result.val[<<"use", "dns">>] = None
    /\ result.val[<<"use", "ntp">>] = None

\* C11: for every accepted literal and every mixed-case spelling of it,
\* string_or_bool succeeds and gives the same boolean as it gives for the
\* all-lowercase spelling of that literal.
C11_MixedCaseDecodesAsLowercase ==
    (Done("string_or_bool") /\ input.tok.kind = "str")
    => \A lit \in TruthyWords \cup FalsyWords :
          input.tok.s \in CaseVariants(lit)
          => /\ result.tag = "Ok"
             /\ result = string_or_bool(De(input.fmt, StrTok(lit)))

C11_Witness ==
    /\ Done("string_or_bool")
    /\ input.tok = StrTok(<<"o", "F", "f">>)
    /\ result = Ok(FALSE)
    /\ string_or_bool(De(input.fmt, StrTok(<<"o", "f", "f">>))) = Ok(FALSE)

\* C12: when string_or_bool succeeds on an input with boolean b, calling it
\* again on the native boolean b succeeds with b.
C12_RedecodeIsIdempotent ==
    op = "redecode" => /\ result.tag = "Ok"
                       /\ result = input.first

C12_Witness ==
    /\ op = "redecode"
    /\ input.from = StrTok(<<"O", "f", "f">>)
    /\ input.tok = BoolTok(FALSE)
    /\ result = Ok(FALSE)

\* C13: for every DhcpOverrides value d, reading back the YAML that
\* serializing d writes succeeds and yields d.
C13_DhcpOverridesRoundTrip ==
    (op = "round_trip" /\ input.struct = "DhcpOverrides")
    => result = Ok(input.value)

C13_Witness ==
    /\ op = "round_trip"
    /\ input.struct = "DhcpOverrides"
    /\ input.value[<<"hostname">>] = Some(<<"n", "u", "l", "l">>)
    /\ input.value[<<"use", "dns">>] = Some(FALSE)
    /\ Len(input.yaml) = 2
    /\ result = Ok(input.value)

\* C14: for every EthernetConfig value c, also one whose common_all or
\* common_physical is None, reading back the serialized form of c yields c;
\* a None block comes back as None.
C14_EthernetConfigRoundTrip ==
    (op = "round_trip" /\ input.struct = "EthernetConfig")
    => result = Ok(input.value)

\* the entries of a serialized mapping that carry key k
EntriesOf(yaml, k) == {i \in DOMAIN yaml : yaml[i].key = k}

\* C17: the mapping serialized for a DhcpOverrides value has one key for
\* each field that is Some and no key for a field that is None.
C17_NoneFieldsAreOmitted ==
    (Done("to_string") /\ input.struct = "DhcpOverrides")
    => \A f \in OwnFields("DhcpOverrides") :
          Cardinality(EntriesOf(result.val, FieldKey("DhcpOverrides", f)))
              = IF input.value[f.name] = None THEN 0 ELSE 1

C17_Witness ==
    /\ Done("to_string")
    /\ input.struct = "DhcpOverrides"
    /\ input.value[<<"use", "mtu">>] = Some(TRUE)
    /\ input.value[<<"hostname">>] = None
    /\ Len(result.val) = 1
    /\ result.val[1].key = Key(<<"use", "mtu">>, "-")

\* the keys of DhcpOverrides, in declaration order
DhcpOverridesKeys ==
    << Key(<<"use", "dns">>, "-"), Key(<<"use", "ntp">>, "-"),
       Key(<<"send", "hostname">>, "-"), Key(<<"use", "hostname">>, "-"),
       Key(<<"use", "mtu">>, "-"), Key(<<"hostname">>, "-"),
       Key(<<"use", "routes">>, "-"), Key(<<"route", "metric">>, "-"),
       Key(<<"use", "domains">>, "-") >>

\* C18: DhcpOverrides is written and read under the kebab-case keys use-dns,
\* use-ntp, send-hostname, use-hostname, use-mtu, hostname, use-routes,
\* route-metric and use-domains, and a lenient boolean field that is Some(b)
\* is written as the native boolean b.
C18_KebabKeysAndNativeBooleans ==
    /\ (Done("to_string") /\ input.struct = "DhcpOverrides")
       => \A i \in DOMAIN result.val :
             \E j \in DOMAIN DhcpOverridesKeys :
                LET f == Fields("DhcpOverrides")[j] IN
                /\ result.val[i].key = DhcpOverridesKeys[j]
                /\ input.value[f.name] # None
                /\ f.kind = "lenient"
                   => /\ result.val[i].node.style = "plain"
                      /\ resolve(result.val[i].node).kind = "bool"
                      /\ resolve(result.val[i].node).b = input.value[f.name][1]
    /\ (Done("from_str") /\ input.struct = "DhcpOverrides" /\ result.tag = "Ok")
       => \A j \in DOMAIN DhcpOverridesKeys :
             LET f == Fields("DhcpOverrides")[j] IN
             (result.val[f.name] # None)
             <=> \E i \in DOMAIN input.doc :
                    /\ input.doc[i].key = DhcpOverridesKeys[j]
                    /\ input.doc[i].tok.kind # "unit"

C18_Witness ==
    /\ Done("to_string")
    /\ input.struct = "DhcpOverrides"
    /\ input.value[<<"send", "hostname">>] = Some(FALSE)
    /\ input.value[<<"route", "metric">>] = Some(100)
    /\ result.val =
         << [key |-> Key(<<"send", "hostname">>, "-"),
             node |-> Plain(<<"f", "a", "l", "s", "e">>)],
            [key |-> Key(<<"route", "metric">>, "-"),
             node |-> Plain(<<"1", "0", "0">>)] >>

\* the inputs of C20: the plain scalars true and route
UseDomainsInputs ==
    {Plain(<<"t", "r", "u", "e">>), Plain(<<"r", "o", "u", "t", "e">>)}

\* the mapping whose one entry is use-domains with one of the inputs of C20
IsUseDomainsDoc(doc) ==
    /\ Len(doc) = 1
    /\ doc[1].key = Key(<<"use", "domains">>, "-")
    /\ \E sc \in UseDomainsInputs : doc[1].tok = resolve(sc)

\* C20: a DhcpOverrides mapping with use-domains: true decodes to
\* use_domains = Some("true") and one with use-domains: route to
\* Some("route"), where the mapping is the document itself and where it is
\* the dhcp4-overrides or dhcp6-overrides of a device definition.
C20_UseDomainsAcceptsBooleanAndRoute ==
    /\ (Done("from_str") /\ input.struct = "DhcpOverrides"
           /\ IsUseDomainsDoc(input.doc))
       => /\ result.tag = "Ok"
          /\ result.val[<<"use", "domains">>] = Some(input.doc[1].tok.s)
    /\ (Done("from_str") /\ input.struct = "EthernetConfig"
           /\ Len(input.doc) = 1 /\ input.doc[1].tok.kind = "map"
           /\ IsUseDomainsDoc(input.doc[1].tok.m))
       => /\ result.tag = "Ok"
          /\ result.val[<<"common", "all">>] # None
          /\ \E n \in {<<"dhcp4", "overrides">>, <<"dhcp6", "overrides">>} :
                LET d == result.val[<<"common", "all">>][1][n] IN
                /\ d # None
                /\ d[1][<<"use", "domains">>] = Some(input.doc[1].tok.m[1].tok.s)

\* C15: for every TunnelConfig value t, also one whose peers list is empty,
\* reading back the serialized form of t succeeds and yields t.
C15_TunnelConfigRoundTrip ==
    (op = "round_trip" /\ input.struct = "TunnelConfig")
    => result = Ok(input.value)

\* an entry of a list of addresses that is a scalar string
IsStringEntry(node) ==
    node.style \in {"plain", "single"} /\ resolve(node).kind = "str"

\* the texts netplan allows for the lifetime of an address
LifetimeTexts == { <<"f", "o", "r", "e", "v", "e", "r">>, <<"0">> }

\* properties of an address: a label that is a string and a lifetime that
\* is forever or 0, each at most once
IsProperties(node) ==
    /\ node.style = "map"
    /\ \A i \in DOMAIN node.entries :
          LET e == node.entries[i] IN
          /\ \A j \in DOMAIN node.entries : node.entries[j].key = e.key => j = i
          /\ \/ e.key = Key(<<"label">>, "-") /\ IsStringEntry(e.node)
             \/ /\ e.key = Key(<<"lifetime">>, "-")
                /\ e.node.style \in {"plain", "single"}
                /\ e.node.text \in LifetimeTexts

\* an entry of a list of addresses that is a single-key mapping from an
\* address to its properties
IsMappingEntry(node) ==
    /\ node.style = "map"
    /\ Len(node.entries) = 1
    /\ IsStringEntry(node.entries[1].key)
    /\ IsProperties(node.entries[1].node)

\* the value of the property k in the properties of an address
PropertyOf(node, k) ==
    IF \E i \in DOMAIN node.entries : node.entries[i].key = k
    THEN Some((CHOOSE e \in {node.entries[i] : i \in DOMAIN node.entries} :
                  e.key = k).node.text)
    ELSE None

\* the AddressMapping an entry of a list of addresses stands for
ExpectedAddressMapping(node) ==
    IF node.style # "map"
    THEN [variant |-> "Simple", val |-> node.text]
    ELSE LET props == node.entries[1].node
             lifetime == PropertyOf(props, Key(<<"lifetime">>, "-"))
         IN  [variant |-> "Complex",
              val |-> (node.entries[1].key.text :>
                  (<<"label">> :> PropertyOf(props, Key(<<"label">>, "-")) @@
                   <<"lifetime">> :>
                       (IF lifetime = None THEN None
                        ELSE IF lifetime[1] = <<"0">> THEN Some("Zero")
                        ELSE Some("Forever"))))]

\* C19: a list of addresses whose entries are scalar strings and single-key
\* mappings decodes to as many AddressMappings in the same order, a scalar
\* string to Simple with that string and a mapping to Complex holding its
\* key with its label and lifetime.
C19_AddressListDecodes ==
    (Done("from_str_addresses")
        /\ \A i \in DOMAIN input.items :
              IsStringEntry(input.items[i]) \/ IsMappingEntry(input.items[i]))
    => result = Ok([i \in DOMAIN input.items |->
                      ExpectedAddressMapping(input.items[i])])

\* thread w has taken the step
Stepped(w) == calls'[w] # calls[w] \/ result'[w] # result[w]

IsInteger(tok) == tok.kind \in {"u64", "i64"}

\* the mapping that holds the fields of DhcpOverrides in a document: the
\* document itself, or the mapping under its one key
DhcpMapping(in) ==
    IF in.struct = "DhcpOverrides" THEN in.doc ELSE in.doc[1].tok.m

\* a document whose DhcpOverrides mapping is the one entry route-metric
\* with an integer value
IsRouteMetricDoc(in) ==
    /\ in \in RouteMetricDocs
    /\ DhcpMapping(in)[1].key = Key(<<"route", "metric">>, "-")
    /\ IsInteger(DhcpMapping(in)[1].tok)

\* the DhcpOverrides value inside a decoded value: the value itself, or
\* the block under the key of the document
DhcpValueOf(in, val) ==
    IF in.struct = "DhcpOverrides" THEN Some(val)
    ELSE IF val[<<"common", "all">>] = None THEN None
    ELSE val[<<"common", "all">>][1][in.doc[1].key.words]

\* C21: route-metric decodes an integer n to Some(n) for every n in
\* 0..=65535, and decoding fails for every integer outside that range
C21_RouteMetricRange ==
    (op = "from_str" /\ result # Pending /\ IsRouteMetricDoc(input)) =>
        LET n == DhcpMapping(input)[1].tok.n IN
        IF n >= 0 /\ n <= 65535
        THEN /\ result.tag = "Ok"
             /\ DhcpValueOf(input, result.val) # None
             /\ DhcpValueOf(input, result.val)[1][<<"route", "metric">>] = Some(n)
        ELSE result.tag = "Err"

\* C21 for a DhcpOverrides mapping decoded on its own
C21_Direct ==
    (op = "from_str" /\ input.struct = "DhcpOverrides") => C21_RouteMetricRange

\* the string the activation-mode setting uses for each variant
ActivationModeStrings ==
    [Manual |-> <<"m", "a", "n", "u", "a", "l">>, Off |-> <<"o", "f", "f">>]

\* the block of common properties of a value of struct S, if it has one
CommonAllOf(S, val) ==
    IF S = "CommonPropertiesAllDevices" THEN Some(val)
    ELSE val[<<"common", "all">>]

\* a document whose one entry sets the field `words` to a scalar of `texts`
IsFieldDoc(in, words, texts) ==
    /\ in \in FieldDocs
    /\ in.doc[1].key = Key(words, "-")
    /\ in.doc[1].tok.kind \in ScalarKinds
    /\ in.doc[1].tok.s \in texts

\* C22: ActivationMode::Manual and ActivationMode::Off are serialized as the
\* strings "manual" and "off", and those two strings are accepted when
\* decoding.
C22_ActivationModeValues ==
    /\ (/\ Done("to_string")
        /\ input.struct = "EthernetConfig"
        /\ CommonAllOf(input.struct, input.value) # None
        /\ CommonAllOf(input.struct, input.value)[1][<<"activation", "mode">>] # None)
       => LET v == CommonAllOf(input.struct, input.value)[1][<<"activation", "mode">>][1]
          IN  \E i \in EntriesOf(result.val, Key(<<"activation", "mode">>, "-")) :
                 /\ result.val[i].node.style \in {"plain", "single"}
                 /\ result.val[i].node.text = ActivationModeStrings[v]
    /\ (/\ Done("from_str")
        /\ IsFieldDoc(input, <<"activation", "mode">>,
                      {ActivationModeStrings[v] : v \in DOMAIN ActivationModeStrings}))
       => /\ result.tag = "Ok"
          /\ CommonAllOf(input.struct, result.val) # None
          /\ \E v \in DOMAIN ActivationModeStrings :
                /\ ActivationModeStrings[v] = input.doc[1].tok.s
                /\ CommonAllOf(input.struct, result.val)[1][<<"activation", "mode">>]
                      = Some(v)

\* the string fail-over-mac-policy uses for each variant
FailOverMacPolicyStrings ==
    [None |-> <<"n", "o", "n", "e">>, Active |-> <<"a", "c", "t", "i", "v", "e">>,
     Follow |-> <<"f", "o", "l", "l", "o", "w">>]

\* C23: each of the strings none, active and follow decodes to the matching
\* FailOverMacPolicy variant, and each variant serializes to its string.
C23_FailOverMacPolicyValues ==
    /\ (/\ Done("from_str")
        /\ IsFieldDoc(input, <<"fail", "over", "mac", "policy">>,
                      {FailOverMacPolicyStrings[v] : v \in DOMAIN FailOverMacPolicyStrings}))
       => /\ result.tag = "Ok"
          /\ \E v \in DOMAIN FailOverMacPolicyStrings :
                /\ FailOverMacPolicyStrings[v] = input.doc[1].tok.s
                /\ result.val[<<"fail", "over", "mac", "policy">>] = Some(v)
    /\ (/\ Done("to_string")
        /\ input.struct = "BondParameters"
        /\ input.value[<<"fail", "over", "mac", "policy">>] # None)
       => \E i \in EntriesOf(result.val, Key(<<"fail", "over", "mac", "policy">>, "-")) :
             result.val[i].node.text =
                 FailOverMacPolicyStrings[input.value[<<"fail", "over", "mac", "policy">>][1]]

\* the values the documentation of transmit-hash-policy lists
TransmitHashPolicyStrings ==
    { <<"l", "a", "y", "e", "r", "2">>,
      <<"l", "a", "y", "e", "r", "3", "+", "4">>,
      <<"l", "a", "y", "e", "r", "2", "+", "3">>,
      <<"e", "n", "c", "a", "p", "2", "+", "3">>,
      <<"e", "n", "c", "a", "p", "3", "+", "4">> }

\* C24: layer2, layer3+4, layer2+3, encap2+3 and encap3+4 each decode to a
\* TransmitHashPolicy variant.
C24_TransmitHashPolicyAccepts ==
    (/\ Done("from_str")
     /\ IsFieldDoc(input, <<"transmit", "hash", "policy">>, TransmitHashPolicyStrings))
    => /\ result.tag = "Ok"
       /\ result.val[<<"transmit", "hash", "policy">>] # None

\* a tunnel definition with a key and a list of peers
IsTunnelKeyDoc(in) ==
    /\ in \in TunnelKeyDocs
    /\ Len(in.doc) = 2

\* the value of a key of a mapping token, None when the key is absent
EntryOf(tok, word) ==
    IF \E i \in DOMAIN tok.m : tok.m[i].key = Key(<<word>>, "-")
    THEN Some(tok.m[CHOOSE i \in DOMAIN tok.m : tok.m[i].key = Key(<<word>>, "-")].tok.s)
    ELSE None

\* C25: a scalar string k given as the key of a tunnel decodes to
\* TunnelKey::Simple(k), and a mapping with the keys input, output and
\* private decodes to TunnelKey::Complex with those values.
C25_TunnelKeyScalarOrMapping ==
    (Done("from_str") /\ IsTunnelKeyDoc(input)) =>
        LET tok == input.doc[1].tok IN
        /\ result.tag = "Ok"
        /\ tok.kind = "str" =>
              result.val[<<"key">>] = Some(TunnelKeyOf("Simple", tok.s))
        /\ tok.kind = "map" =>
              result.val[<<"key">>] =
                  Some(TunnelKeyOf("Complex",
                           [w \in {<<"input">>, <<"output">>, <<"private">>} |->
                               EntryOf(tok, w[1])]))

====
